---------------------------- MODULE Spec2Model ----------------------------
(***************************************************************************)
(* Decision-tree induction of SDLC_identifier.py: class_counts, partition, *)
(* gini, info_gain, find_best_split and build_tree, over a small table     *)
(* with one label column "Model".                                          *)
(*                                                                         *)
(* The arithmetic of gini and info_gain is Python float arithmetic (IEEE   *)
(* binary64, round to nearest, ties to even).  A float is modelled exactly *)
(* as a signed fixed-point number with FracLimbs limbs of LimbBits bits    *)
(* after the binary point.  On a table of at most 16 rows every quotient,  *)
(* square and product the program computes is 0 or at least 2^-12, and at  *)
(* most 1, so with 53 significant bits it is a multiple of 2^-65; sums and *)
(* differences of such numbers are multiples of 2^-65 again.  Each         *)
(* operation is the exact operation followed by rounding to 53 significant *)
(* bits.                                                                   *)
(***************************************************************************)
EXTENDS Integers, Sequences, FiniteSets, TLC

-----------------------------------------------------------------------------
(* Bounds of the model. *)

\* longest root table with the single feature column Shape
MaxRows == 6
\* longest root table with the two feature columns Shape and Size
MaxRowsWide == 3

-----------------------------------------------------------------------------
(* Natural numbers of arbitrary size: little-endian sequences of limbs. *)

LimbBits == 13
Base == 8192
FracLimbs == 5
Mantissa == 53

Pow2 == <<1, 2, 4, 8, 16, 32, 64, 128, 256, 512, 1024, 2048, 4096, 8192>>

Zeros(n) == [i \in 1..n |-> 0]

\* carry propagation: cols[i] < 2^30 are column sums, the result has the
\* same length (the top carry is dropped; callers size the result)
RECURSIVE Carry(_, _, _)
Carry(cols, i, c) ==
    IF i > Len(cols) THEN <<>>
    ELSE <<(cols[i] + c) % Base>> \o Carry(cols, i + 1, (cols[i] + c) \div Base)

BigAdd(a, b) == Carry([i \in 1..Len(a) |-> a[i] + b[i]], 1, 0)

\* a - b for a >= b
RECURSIVE Borrow(_, _, _, _)
Borrow(a, b, i, br) ==
    IF i > Len(a) THEN <<>>
    ELSE LET d == a[i] - b[i] - br
         IN  <<IF d < 0 THEN d + Base ELSE d>>
               \o Borrow(a, b, i + 1, IF d < 0 THEN 1 ELSE 0)

BigSub(a, b) == Borrow(a, b, 1, 0)

\* -1, 0, 1 as a < b, a = b, a > b (same length)
RECURSIVE BigCmpFrom(_, _, _)
BigCmpFrom(a, b, i) ==
    IF i = 0 THEN 0
    ELSE IF a[i] < b[i] THEN -1
    ELSE IF a[i] > b[i] THEN 1
    ELSE BigCmpFrom(a, b, i - 1)

BigCmp(a, b) == BigCmpFrom(a, b, Len(a))

BigIsZero(a) == \A i \in 1..Len(a) : a[i] = 0

\* the sum of a[i] * b[k + 1 - i] over the i from lo up to hi
RECURSIVE ColSum(_, _, _, _, _)
ColSum(a, b, k, lo, hi) ==
    IF lo > hi THEN 0 ELSE a[lo] * b[k + 1 - lo] + ColSum(a, b, k, lo + 1, hi)

Max(m, n) == IF m >= n THEN m ELSE n
Min(m, n) == IF m <= n THEN m ELSE n

\* schoolbook product, column by column with the carry c
RECURSIVE MulCols(_, _, _, _)
RECURSIVE MulEmit(_, _, _, _)
MulCols(a, b, k, c) ==
    IF k > Len(a) + Len(b) THEN <<>>
    ELSE MulEmit(a, b, k,
                 c + ColSum(a, b, k, Max(1, k + 1 - Len(b)), Min(Len(a), k)))

MulEmit(a, b, k, s) == <<s % Base>> \o MulCols(a, b, k + 1, s \div Base)

BigMul(a, b) == MulCols(a, b, 1, 0)

\* number of bits of a limb
RECURSIVE LimbLen(_)
LimbLen(d) == IF d = 0 THEN 0 ELSE 1 + LimbLen(d \div 2)

RECURSIVE TopLimb(_, _)
TopLimb(a, i) == IF i = 0 THEN 0 ELSE IF a[i] # 0 THEN i ELSE TopLimb(a, i - 1)

BitLen(a) ==
    LET t == TopLimb(a, Len(a))
    IN  IF t = 0 THEN 0 ELSE (t - 1) * LimbBits + LimbLen(a[t])

\* the bits of a below the unit u of limb k, against half a unit: -1, 0, 1
RemCmp(a, k, u) ==
    BigCmp([i \in 1..k |-> IF i < k THEN a[i] ELSE a[k] % u],
           [i \in 1..k |-> IF u = 1
                           THEN (IF i = k - 1 THEN Base \div 2 ELSE 0)
                           ELSE (IF i = k THEN u \div 2 ELSE 0)])

\* a without the bits below the unit u of limb k
Trunc(a, k, u) ==
    [i \in 1..Len(a) |-> IF i < k THEN 0 ELSE IF i = k THEN a[k] - (a[k] % u) ELSE a[i]]

\* to nearest, ties to even; sticky: the exact value is a little more than a
RoundUnit(a, k, u, sticky) ==
    IF \/ RemCmp(a, k, u) > 0
       \/ RemCmp(a, k, u) = 0 /\ (sticky \/ (a[k] \div u) % 2 = 1)
    THEN BigAdd(Trunc(a, k, u), [i \in 1..Len(a) |-> IF i = k THEN u ELSE 0])
    ELSE Trunc(a, k, u)

\* a rounded at its bit number sh (0 the lowest)
RoundAt(a, sh, sticky) ==
    RoundUnit(a, (sh \div LimbBits) + 1, Pow2[(sh % LimbBits) + 1], sticky)

\* a rounded to Mantissa significant bits
RoundSig(a, sticky) ==
    IF BitLen(a) <= Mantissa THEN a ELSE RoundAt(a, BitLen(a) - Mantissa, sticky)

-----------------------------------------------------------------------------
(* Python floats.  [neg, mag]: the value is (-1)^neg * mag / Base^FracLimbs, *)
(* mag a natural of FracLimbs + 1 limbs.  Zero is kept with neg = FALSE (the *)
(* program only compares floats, and -0.0 == 0.0).                           *)

FloatLimbs == FracLimbs + 1

FloatOfInt(n) == [neg |-> FALSE, mag |-> Zeros(FracLimbs) \o <<n>>]

Float0 == FloatOfInt(0)
Float1 == FloatOfInt(1)

MkFloat(neg, mag) == [neg |-> neg /\ ~BigIsZero(mag), mag |-> mag]

\* the digits (most significant first) of floor(c * Base^m / n) after the
\* integer digit, and the final remainder
RECURSIVE ShortDiv(_, _, _)
ShortDiv(r, n, m) ==
    IF m = 0 THEN [q |-> <<>>, r |-> r]
    ELSE LET rest == ShortDiv((r * Base) % n, n, m - 1)
         IN  [q |-> rest.q \o <<(r * Base) \div n>>, r |-> rest.r]

DivRound(d, whole) ==
    MkFloat(FALSE, SubSeq(RoundSig(d.q \o <<whole>>, d.r # 0), 3, FracLimbs + 3))

\* float(c) / n for naturals c, n with n > 0 and c < Base * n
FloatDiv(c, n) == DivRound(ShortDiv(c % n, n, FracLimbs + 2), c \div n)

\* u * v
FloatMul(u, v) ==
    MkFloat(u.neg # v.neg,
            SubSeq(RoundSig(BigMul(u.mag, v.mag), FALSE),
                   FracLimbs + 1, 2 * FracLimbs + 1))

FloatNeg(u) == MkFloat(~u.neg, u.mag)

\* big + small for |big| >= |small|
FloatAddOrdered(big, small) ==
    MkFloat(big.neg,
            RoundSig(IF big.neg = small.neg THEN BigAdd(big.mag, small.mag)
                                            ELSE BigSub(big.mag, small.mag),
                     FALSE))

\* u + v
FloatAdd(u, v) ==
    IF BigCmp(u.mag, v.mag) >= 0 THEN FloatAddOrdered(u, v)
                                 ELSE FloatAddOrdered(v, u)

\* u - v
FloatSub(u, v) == FloatAdd(u, FloatNeg(v))

\* -1, 0, 1 as u < v, u == v, u > v
FloatCmp(u, v) ==
    IF u.neg # v.neg THEN (IF u.neg THEN -1 ELSE 1)
    ELSE BigCmp(IF u.neg THEN v.mag ELSE u.mag, IF u.neg THEN u.mag ELSE v.mag)

FloatGe(u, v) == FloatCmp(u, v) >= 0
FloatGt(u, v) == FloatCmp(u, v) > 0
FloatEq(u, v) == FloatCmp(u, v) = 0

-----------------------------------------------------------------------------
(* Tables.  A DataFrame is [list |-> FALSE, cols, rows]: rows is the sequence *)
(* of rows in index order (the index is always 0..n-1: read_csv and          *)
(* reset_index(drop=True)), a row maps each column name to its value.  The    *)
(* empty Python list [] that partition returns for an empty side is           *)
(* EmptyList.                                                                 *)

Labels == <<"A", "B">>
NarrowCols == <<"Shape", "Model">>
WideCols == <<"Shape", "Size", "Model">>
NarrowRows == [Shape : {"V", "U"}, Model : {"A", "B"}]
WideRows == [Shape : {"V", "U"}, Size : {"S", "L"}, Model : {"A", "B"}]

DataFrame(cols, rows) == [list |-> FALSE, cols |-> cols, rows |-> rows]
EmptyList == [list |-> TRUE, cols |-> <<>>, rows |-> <<>>]

\* len(df), also of the list []
len(df) == Len(df.rows)

SeqsUpTo(S, n) == UNION {[1..k -> S] : k \in 0..n}

\* the tables the csv file can hold: any number of rows up to the bound,
\* header-only files included
RootTables ==
    {DataFrame(NarrowCols, rs) : rs \in SeqsUpTo(NarrowRows, MaxRows)}
      \cup {DataFrame(WideCols, rs) : rs \in SeqsUpTo(WideRows, MaxRowsWide)}

\* an exception or a value
Raise(exc) == [err |-> exc, val |-> Float0]
Return(v) == [err |-> "none", val |-> v]

-----------------------------------------------------------------------------
(* Question, unique_vals, class_counts, partition *)

Question(col, value) == [col |-> col, value |-> value]
NoQuestion == [col |-> "None", value |-> "None"]

\* Question.match: the value of the question's column in row `example`
match(question, df, example) == df.rows[example][question.col] = question.value

\* df[col].unique().tolist(): the distinct values in order of first appearance
RECURSIVE unique_loop(_, _, _, _)
unique_loop(df, col, i, seen) ==
    IF i > len(df) THEN seen
    ELSE IF \E k \in 1..Len(seen) : seen[k] = df.rows[i][col]
         THEN unique_loop(df, col, i + 1, seen)
         ELSE unique_loop(df, col, i + 1, Append(seen, df.rows[i][col]))

unique_vals(df, col) == unique_loop(df, col, 1, <<>>)

\* the dict of class_counts as the sequence of its items in insertion order
RECURSIVE class_counts_loop(_, _, _)
class_counts_loop(df, i, counts) ==
    IF i > len(df) THEN counts
    ELSE LET label == df.rows[i].Model
         IN  IF \E k \in 1..Len(counts) : counts[k].label = label
             THEN class_counts_loop(df, i + 1,
                      [k \in 1..Len(counts) |->
                          IF counts[k].label = label
                          THEN [label |-> label, n |-> counts[k].n + 1]
                          ELSE counts[k]])
             ELSE class_counts_loop(df, i + 1,
                      Append(counts, [label |-> label, n |-> 1]))

class_counts(df) == class_counts_loop(df, 1, <<>>)

\* partition_loop putting each row in front of the rows already taken
RECURSIVE partition_loop_prepend(_, _, _, _, _)
partition_loop_prepend(df, question, row, true_rows, false_rows) ==
    IF row > len(df) THEN <<true_rows, false_rows>>
    ELSE IF match(question, df, row)
         THEN partition_loop_prepend(df, question, row + 1,
                                     <<df.rows[row]>> \o true_rows, false_rows)
         ELSE partition_loop_prepend(df, question, row + 1,
                                     true_rows, <<df.rows[row]>> \o false_rows)

\* the loop of partition over the row numbers
RECURSIVE partition_loop(_, _, _, _, _)
partition_loop(df, question, row, true_rows, false_rows) ==
    IF row > len(df) THEN <<true_rows, false_rows>>
    ELSE IF match(question, df, row)
         THEN partition_loop(df, question, row + 1,
                             Append(true_rows, df.rows[row]), false_rows)
         ELSE partition_loop(df, question, row + 1,
                             true_rows, Append(false_rows, df.rows[row]))

\* pd.concat(rows).reset_index(drop=True), [] when there is nothing to concat
concat(df, rows) == IF rows = <<>> THEN EmptyList ELSE DataFrame(df.cols, rows)

both_rows(df, both) ==
    [true_rows |-> concat(df, both[1]), false_rows |-> concat(df, both[2])]

partition(df, col, val) ==
    both_rows(df, partition_loop(df, Question(col, val), 1, <<>>, <<>>))

-----------------------------------------------------------------------------
(* gini and info_gain *)

\* gini_step without the square
gini_step_linear(impurity, prob_of_lbl) == FloatSub(impurity, prob_of_lbl)

\* impurity -= prob_of_lbl**2
gini_step(impurity, prob_of_lbl) ==
    FloatSub(impurity, FloatMul(prob_of_lbl, prob_of_lbl))

\* for lbl in counts: prob_of_lbl = counts[lbl] / float(n); ...
RECURSIVE gini_loop(_, _, _, _)
gini_loop(counts, n, k, impurity) ==
    IF k > Len(counts) THEN Return(impurity)
    ELSE IF n = 0 THEN Raise("ZeroDivisionError")
    ELSE gini_loop(counts, n, k + 1,
                   gini_step(impurity, FloatDiv(counts[k].n, n)))

\* class_counts(df) indexes df["Model"]: a TypeError on the list []
gini(df) ==
    IF df.list THEN Raise("TypeError")
    ELSE gini_loop(class_counts(df), len(df), 1, Float1)

\* current_uncertainty - p * gini(left) - (1 - p) * gini(right)
info_gain_value(current_uncertainty, p, gl, gr) ==
    IF gl.err # "none" THEN gl
    ELSE IF gr.err # "none" THEN gr
    ELSE Return(FloatSub(FloatSub(current_uncertainty, FloatMul(p, gl.val)),
                         FloatMul(FloatSub(Float1, p), gr.val)))

info_gain(left, right, current_uncertainty) ==
    IF len(left) + len(right) = 0 THEN Raise("ZeroDivisionError")
    ELSE info_gain_value(current_uncertainty,
                         FloatDiv(len(left), len(left) + len(right)),
                         gini(left), gini(right))

-----------------------------------------------------------------------------
(* gini and info_gain read a table only through the values of class_counts  *)
(* (in dict order) and the row count, so their results are computed once     *)
(* per vector of counts, on a table that has these counts.                   *)

TableRows == Max(MaxRows, MaxRowsWide)

RECURSIVE Sum(_)
Sum(cv) == IF cv = <<>> THEN 0 ELSE Head(cv) + Sum(Tail(cv))

CountVecs ==
    {cv \in UNION {[1..k -> 1..TableRows] : k \in 0..Len(Labels)} :
        Sum(cv) <= TableRows}

\* the key of a table: the values of its class_counts, <<-1>> for the list []
ListKey == <<-1>>

TableKey(df) ==
    IF df.list THEN ListKey
    ELSE LET counts == class_counts(df) IN [k \in 1..Len(counts) |-> counts[k].n]

Rows(key) == IF key = ListKey THEN 0 ELSE Sum(key)

\* a table with the key
WithKey(key) ==
    IF key = ListKey THEN EmptyList
    ELSE DataFrame(<<"Model">>,
              [i \in 1..Sum(key) |->
                  [Model |-> Labels[CHOOSE k \in 1..Len(key) :
                                 /\ i <= Sum(SubSeq(key, 1, k))
                                 /\ i > Sum(SubSeq(key, 1, k - 1))]]])

GiniTable == [key \in CountVecs \cup {ListKey} |-> gini(WithKey(key))]

gini_of(df) == GiniTable[TableKey(df)]

\* left, right, and a table of as many rows as left and right together
GainKeys ==
    {key \in ((CountVecs \ {<<>>}) \cup {ListKey})
               \X ((CountVecs \ {<<>>}) \cup {ListKey}) \X (CountVecs \ {<<>>}) :
        \/ ListKey \in {key[1], key[2]}
        \/ Rows(key[1]) + Rows(key[2]) = Rows(key[3])}

\* the arguments of info_gain: left, right, and the impurity of that table
GainArgs == {<<key[1], key[2], GiniTable[key[3]].val>> : key \in GainKeys}

GainTable ==
    [arg \in GainArgs |-> info_gain(WithKey(arg[1]), WithKey(arg[2]), arg[3])]

info_gain_of(left, right, current_uncertainty) ==
    GainTable[<<TableKey(left), TableKey(right), current_uncertainty>>]

-----------------------------------------------------------------------------
(* find_best_split *)

\* the candidate questions in the order of the two loops: for col in df
\* (skipping "Model"), for val in unique_vals(df, col)
questions(col, values) == [i \in 1..Len(values) |-> Question(col, values[i])]

RECURSIVE candidates_from(_, _)
candidates_from(df, c) ==
    IF c > Len(df.cols) THEN <<>>
    ELSE IF df.cols[c] = "Model" THEN candidates_from(df, c + 1)
    ELSE questions(df.cols[c], unique_vals(df, df.cols[c]))
           \o candidates_from(df, c + 1)

candidates(df) == candidates_from(df, 1)

\* skip with "and" for "or": a candidate with one empty side is scored
skip_both(true_rows, false_rows) == len(true_rows) = 0 /\ len(false_rows) = 0

\* if len(true_rows) == 0 or len(false_rows) == 0: continue
skip(true_rows, false_rows) == len(true_rows) = 0 \/ len(false_rows) = 0

\* better with ">" for ">=": the first of equal gains is kept
better_strict(gain, best_gain) == FloatGt(gain, best_gain)

\* if gain >= best_gain
better(gain, best_gain) == FloatGe(gain, best_gain)

\* if gain >= best_gain: best_gain, best_question = gain, question
\* found holds best_gain and best_question, and scored: the candidates that
\* reached info_gain, with the gain each got
split_update(question, parts, gain, found) ==
    IF gain.err # "none"
    THEN [found EXCEPT !.err = gain.err]
    ELSE IF better(gain.val, found.best_gain)
    THEN [found EXCEPT !.best_gain = gain.val, !.best_question = question,
                       !.scored = Append(@, [question |-> question,
                                             gain |-> gain.val,
                                             true_rows |-> parts.true_rows,
                                             false_rows |-> parts.false_rows])]
    ELSE [found EXCEPT !.scored = Append(@, [question |-> question,
                                             gain |-> gain.val,
                                             true_rows |-> parts.true_rows,
                                             false_rows |-> parts.false_rows])]

split_score(question, parts, current_uncertainty, found) ==
    IF skip(parts.true_rows, parts.false_rows) THEN found
    ELSE split_update(question, parts,
                      info_gain_of(parts.true_rows, parts.false_rows,
                                   current_uncertainty),
                      found)

\* the loop body for one candidate question
split_step(df, question, current_uncertainty, found) ==
    split_score(question, partition(df, question.col, question.value),
                current_uncertainty, found)

RECURSIVE split_loop(_, _, _, _, _)
split_loop(df, cands, i, current_uncertainty, found) ==
    IF i > Len(cands) \/ found.err # "none" THEN found
    ELSE split_loop(df, cands, i + 1, current_uncertainty,
                    split_step(df, cands[i], current_uncertainty, found))

search(df, current_uncertainty) ==
    split_loop(df, candidates(df), 1, current_uncertainty.val,
               [err |-> current_uncertainty.err,
                best_gain |-> Float0, best_question |-> NoQuestion,
                current_uncertainty |-> current_uncertainty.val,
                scored |-> <<>>])

find_best_split(df) == search(df, gini_of(df))

\* find_best_split is a function of its table. Its results are computed
\* once per table and kept in a tree of tables: a node holds the result for
\* the rows that lead to it, and under each possible next row the node for
\* the table with that row added.
RECURSIVE SetToSeq(_)
SetToSeq(S) ==
    IF S = {} THEN <<>>
    ELSE <<CHOOSE r \in S : TRUE>> \o SetToSeq(S \ {CHOOSE r \in S : TRUE})

NarrowRowList == SetToSeq(NarrowRows)
WideRowList == SetToSeq(WideRows)

RECURSIVE FindNode(_, _, _, _)
RECURSIVE FindNext(_, _, _, _, _)
FindNode(cols, RowList, rows, more) ==
    [here |-> find_best_split(DataFrame(cols, rows)),
     next |-> IF more = 0 THEN <<>> ELSE FindNext(cols, RowList, rows, more, 1)]

\* the nodes under a node, in the order of RowList
FindNext(cols, RowList, rows, more, k) ==
    IF k > Len(RowList) THEN <<>>
    ELSE <<FindNode(cols, RowList, Append(rows, RowList[k]), more - 1)>>
           \o FindNext(cols, RowList, rows, more, k + 1)

FindNarrow == FindNode(NarrowCols, NarrowRowList, <<>>, MaxRows)
FindWide == FindNode(WideCols, WideRowList, <<>>, MaxRowsWide)

RowIndex(RowList, r) == CHOOSE k \in 1..Len(RowList) : RowList[k] = r

RECURSIVE FindWalk(_, _, _, _)
FindWalk(node, RowList, rows, i) ==
    IF i > Len(rows) THEN node.here
    ELSE FindWalk(node.next[RowIndex(RowList, rows[i])], RowList, rows, i + 1)

find_best_split_of(df) ==
    IF df.cols = NarrowCols /\ len(df) <= MaxRows
    THEN FindWalk(FindNarrow, NarrowRowList, df.rows, 1)
    ELSE IF df.cols = WideCols /\ len(df) <= MaxRowsWide
    THEN FindWalk(FindWide, WideRowList, df.rows, 1)
    ELSE find_best_split(df)

-----------------------------------------------------------------------------
(* Leaf, Decision_Node *)

Leaf(df) == [kind |-> "Leaf", predictions |-> class_counts(df)]

Decision_Node(question, true_branch, false_branch) ==
    [kind |-> "Decision_Node", question |-> question,
     true_branch |-> true_branch, false_branch |-> false_branch]

None == [kind |-> "None"]

\* an exception that left build_tree
Raised(exc) == [kind |-> "Raise", err |-> exc]

\* is_leaf with the test "gain < 0": what the recursion does without the
\* test for a gain of 0
is_leaf_negative(gain) == FloatGt(Float0, gain)

\* if gain == 0
is_leaf(gain) == FloatEq(gain, Float0)

\* build_tree as the function it computes: the tree, or the exception
RECURSIVE build_tree(_)
RECURSIVE build_after_search(_, _)
RECURSIVE build_branches(_, _)
build_tree(df) == build_after_search(df, find_best_split_of(df))

build_after_search(df, found) ==
    IF found.err # "none" THEN Raised(found.err)
    ELSE IF is_leaf(found.best_gain) THEN Leaf(df)
    ELSE IF found.best_question = NoQuestion THEN Raised("AttributeError")
    ELSE build_branches(found.best_question,
                        partition(df, found.best_question.col,
                                  found.best_question.value))

\* an exception in a branch leaves the caller too
build_node(question, true_branch, false_branch) ==
    IF true_branch.kind = "Raise" THEN true_branch
    ELSE IF false_branch.kind = "Raise" THEN false_branch
    ELSE Decision_Node(question, true_branch, false_branch)

build_branches(question, parts) ==
    build_node(question, build_tree(parts.true_rows),
               build_tree(parts.false_rows))

-----------------------------------------------------------------------------
(* The program: tree = build_tree(data).                                     *)
(*                                                                           *)
(*   data   the table read from the csv file                                 *)
(*   stack  the activations of build_tree, the running one last; each holds  *)
(*          its argument df, its locals and where it is:                     *)
(*            "start"  before find_best_split                                *)
(*            "decide" at  if gain == 0                                      *)
(*            "true"   in  build_tree(true_rows)                             *)
(*            "false"  in  build_tree(false_rows)                            *)
(*   ret    the value the last finished activation returned, until its       *)
(*          caller takes it                                                  *)
(*   tree   the module-level tree, None until build_tree(data) returns       *)
(*   err    the exception that ended the program, "none" if none             *)
(*   call   the arguments and results of a direct call of partition          *)

VARIABLES data, stack, ret, tree, err, call

vars == <<data, stack, ret, tree, err, call>>

Activation(df) ==
    [df |-> df, pc |-> "start", gain |-> Float0, question |-> NoQuestion,
     current_uncertainty |-> Float0, scored |-> <<>>,
     true_rows |-> EmptyList, false_rows |-> EmptyList, true_branch |-> None]

NoCall == [op |-> "none"]

Top == stack[Len(stack)]
Pop == SubSeq(stack, 1, Len(stack) - 1)
SetTop(act) == [stack EXCEPT ![Len(stack)] = act]

\* data before the csv file is read
NotRead == DataFrame(<<>>, <<>>)

Init ==
    /\ data = NotRead
    /\ stack = <<>>
    /\ ret = None
    /\ tree = None
    /\ err = "none"
    /\ call = NoCall

\* data = pd.read_csv(...), and the call of build_tree(data)
ReadCsv ==
    /\ data = NotRead
    /\ data' \in RootTables
    /\ stack' = <<Activation(data')>>
    /\ UNCHANGED <<ret, tree, err, call>>

Searched(found) ==
    /\ err' = found.err
    /\ stack' = IF found.err # "none" THEN <<>>
                ELSE SetTop([Top EXCEPT
                       !.pc = "decide",
                       !.gain = found.best_gain,
                       !.question = found.best_question,
                       !.current_uncertainty = found.current_uncertainty,
                       !.scored = found.scored])

\* gain, question = find_best_split(df)
FindBestSplit ==
    /\ stack # <<>>
    /\ Top.pc = "start"
    /\ Searched(find_best_split_of(Top.df))
    /\ UNCHANGED <<data, ret, tree, call>>

\* if gain == 0: return Leaf(df)
ReturnLeaf ==
    /\ stack # <<>>
    /\ Top.pc = "decide"
    /\ is_leaf(Top.gain)
    /\ ret' = Leaf(Top.df)
    /\ stack' = Pop
    /\ UNCHANGED <<data, tree, err, call>>

Descend(parts) ==
    stack' = Append(SetTop([Top EXCEPT !.pc = "true",
                                       !.true_rows = parts.true_rows,
                                       !.false_rows = parts.false_rows]),
                    Activation(parts.true_rows))

\* col, val = question.col, question.value
\* true_rows, false_rows = partition(df, col, val)
\* true_branch = build_tree(true_rows)       (the call)
Split ==
    /\ stack # <<>>
    /\ Top.pc = "decide"
    /\ ~is_leaf(Top.gain)
    /\ IF Top.question = NoQuestion
       THEN /\ err' = "AttributeError"
            /\ stack' = <<>>
       ELSE /\ err' = err
            /\ Descend(partition(Top.df, Top.question.col, Top.question.value))
    /\ UNCHANGED <<data, ret, tree, call>>

\* AfterTrue building the false branch from true_rows again
AfterTrueAgain ==
    /\ stack # <<>>
    /\ Top.pc = "true"
    /\ ret.kind # "None"
    /\ stack' = Append(SetTop([Top EXCEPT !.pc = "false", !.true_branch = ret]),
                       Activation(Top.true_rows))
    /\ ret' = None
    /\ UNCHANGED <<data, tree, err, call>>

\* true_branch = build_tree(true_rows)       (the return)
\* false_branch = build_tree(false_rows)     (the call)
AfterTrue ==
    /\ stack # <<>>
    /\ Top.pc = "true"
    /\ ret.kind # "None"
    /\ stack' = Append(SetTop([Top EXCEPT !.pc = "false", !.true_branch = ret]),
                       Activation(Top.false_rows))
    /\ ret' = None
    /\ UNCHANGED <<data, tree, err, call>>

\* false_branch = build_tree(false_rows)     (the return)
\* return Decision_Node(question, true_branch, false_branch)
AfterFalse ==
    /\ stack # <<>>
    /\ Top.pc = "false"
    /\ ret.kind # "None"
    /\ ret' = Decision_Node(Top.question, Top.true_branch, ret)
    /\ stack' = Pop
    /\ UNCHANGED <<data, tree, err, call>>

\* tree = build_tree(data)
Assign ==
    /\ stack = <<>>
    /\ err = "none"
    /\ ret.kind # "None"
    /\ tree' = ret
    /\ ret' = None
    /\ UNCHANGED <<data, stack, err, call>>

Next ==
    ReadCsv \/ FindBestSplit \/ ReturnLeaf \/ Split \/ AfterTrue \/ AfterFalse \/ Assign

Spec == Init /\ [][Next]_vars

\* the interpreter runs the program to its end
FairSpec == Spec /\ WF_vars(Next)

-----------------------------------------------------------------------------
(* A direct call of partition(df, col, value): on any table, with any of    *)
(* its columns (the label column too) and any value, one no row has too.     *)

Values == {"V", "U", "A", "Z"}

InitPartition ==
    /\ data \in RootTables
    /\ stack = <<>>
    /\ ret = None
    /\ tree = None
    /\ err = "none"
    /\ \E c \in 1..Len(data.cols) : \E value \in Values :
          call = [op |-> "partition", col |-> data.cols[c], value |-> value]

Partitioned(parts) ==
    call' = [op |-> "returned", col |-> call.col, value |-> call.value,
             df |-> data,
             true_rows |-> parts.true_rows, false_rows |-> parts.false_rows]

\* true_rows, false_rows = partition(df, col, value)
Partition ==
    /\ call.op = "partition"
    /\ Partitioned(partition(data, call.col, call.value))
    /\ UNCHANGED <<data, stack, ret, tree, err>>

NextPartition == Partition

SpecPartition == InitPartition /\ [][NextPartition]_vars

-----------------------------------------------------------------------------
(* What the properties below speak of *)

\* the activations of build_tree now running
Acts == {stack[i] : i \in 1..Len(stack)}

\* those that have the results of find_best_split
Searches == {act \in Acts : act.pc # "start"}

LabelSet == {Labels[i] : i \in 1..Len(Labels)}

\* the number of rows of df with the label
Count(df, label) == Cardinality({i \in 1..len(df) : df.rows[i].Model = label})

\* the impurities in exact arithmetic: with n rows and c_l rows of label l,
\* gini is 1 - SumSq / n^2, where SumSq is the sum of the c_l^2
RECURSIVE SumSqOver(_, _)
SumSqOver(df, k) ==
    IF k > Len(Labels) THEN 0
    ELSE Count(df, Labels[k]) * Count(df, Labels[k]) + SumSqOver(df, k + 1)

SumSq(df) == SumSqOver(df, 1)

\* the row-count-weighted impurity of left and right is strictly less than
\* the impurity of df, for non-empty left and right that make up df:
\*   SumSq(left) / |left| + SumSq(right) / |right|  >  SumSq(df) / |df|
ExactlyImproves(df, left, right) ==
    (SumSq(left) * len(right) + SumSq(right) * len(left)) * len(df)
        > SumSq(df) * len(left) * len(right)

\* left and right have the label proportions of df
SameDistribution(df, left, right) ==
    \A label \in LabelSet :
        /\ Count(left, label) * len(df) = Count(df, label) * len(left)
        /\ Count(right, label) * len(df) = Count(df, label) * len(right)

\* a row of left and a row of right have different labels
Separates(left, right) ==
    \E i \in 1..len(left) : \E j \in 1..len(right) :
        left.rows[i].Model # right.rows[j].Model

\* the leaves of a tree, and the rows of a label they count
RECURSIVE NumLeaves(_)
NumLeaves(t) ==
    IF t.kind = "Decision_Node"
    THEN NumLeaves(t.true_branch) + NumLeaves(t.false_branch)
    ELSE 1

RECURSIVE LeafCount(_, _)
LeafCount(t, label) ==
    IF t.kind = "Decision_Node"
    THEN LeafCount(t.true_branch, label) + LeafCount(t.false_branch, label)
    ELSE LET hits == {k \in 1..Len(t.predictions) : t.predictions[k].label = label}
         IN  IF hits = {} THEN 0 ELSE t.predictions[CHOOSE k \in hits : TRUE].n

RECURSIVE LeafTotal(_)
LeafTotal(t) ==
    IF t.kind = "Decision_Node"
    THEN LeafTotal(t.true_branch) + LeafTotal(t.false_branch)
    ELSE Sum([k \in 1..Len(t.predictions) |-> t.predictions[k].n])

\* every path from the root of t ends in a Leaf
RECURSIVE EndsInLeaves(_)
EndsInLeaves(t) ==
    \/ t.kind = "Leaf"
    \/ /\ t.kind = "Decision_Node"
       /\ EndsInLeaves(t.true_branch)
       /\ EndsInLeaves(t.false_branch)

-----------------------------------------------------------------------------
(* C1 *)

\* every recursive call gets a non-empty table with fewer rows than its caller's
CallsShrink ==
    \A i \in 2..Len(stack) :
        /\ 0 < len(stack[i].df)
        /\ len(stack[i].df) < len(stack[i - 1].df)

\* C1: build_tree terminates on every non-empty table: each recursive call
\* gets a non-empty table with strictly fewer rows than its caller's, so the
\* chain of calls is shorter than the table, and the run ends with the tree
\* assigned, each of whose paths ends in a Leaf.
C1_BuildTreeTerminates ==
    /\ [](len(data) > 0 => CallsShrink /\ Len(stack) <= len(data))
    /\ [](len(data) > 0 /\ tree.kind # "None" => EndsInLeaves(tree))
    /\ (len(data) > 0) ~> (tree.kind # "None")

\* a run that ended with a tree two Decision Nodes deep
C1_Witness ==
    /\ len(data) > 0
    /\ tree.kind = "Decision_Node"
    /\ \/ tree.true_branch.kind = "Decision_Node"
       \/ tree.false_branch.kind = "Decision_Node"

-----------------------------------------------------------------------------
(* C2 *)

\* the rows the question of an activation sends each way
PartsOf(act) == partition(act.df, act.question.col, act.question.value)

\* C2: for a non-empty table build_tree returns a Leaf exactly when no
\* candidate with both sides non-empty has a gain above 0, and otherwise
\* splits by a question of gain above 0, that is, one for which the weighted
\* impurity of the two children is strictly less than the table's impurity.
C2_LeafIffNoGain ==
    len(data) > 0 =>
        \A act \in Searches :
            /\ is_leaf(act.gain) <=>
                  ~\E k \in 1..Len(act.scored) :
                        FloatGt(act.scored[k].gain, Float0)
            /\ ~is_leaf(act.gain) =>
                  /\ FloatGt(act.gain, Float0)
                  /\ act.question # NoQuestion
                  /\ ExactlyImproves(act.df, PartsOf(act).true_rows,
                                     PartsOf(act).false_rows)


\* a table is split by a question that leaves the impurity as it was
C2_Witness ==
    \E act \in Searches :
        /\ ~is_leaf(act.gain)
        /\ act.question # NoQuestion
        /\ ~ExactlyImproves(act.df, PartsOf(act).true_rows,
                            PartsOf(act).false_rows)

-----------------------------------------------------------------------------
(* C3 *)

\* the rows of df whose number is in S, in the order of df
RECURSIVE Pick(_, _, _)
Pick(df, S, i) ==
    IF i > len(df) THEN <<>>
    ELSE (IF i \in S THEN <<df.rows[i]>> ELSE <<>>) \o Pick(df, S, i + 1)

\* the rows of t and f put back at the row numbers they came from: the i-th
\* row comes from t when the i-th row of df has the value
RECURSIVE Interleave(_, _, _, _)
Interleave(df, i, t, f) ==
    IF i > len(df) THEN t \o f
    ELSE IF df.rows[i][call.col] = call.value
         THEN (IF t = <<>> THEN <<>>
               ELSE <<Head(t)>> \o Interleave(df, i + 1, Tail(t), f))
         ELSE (IF f = <<>> THEN <<>>
               ELSE <<Head(f)>> \o Interleave(df, i + 1, t, Tail(f)))

Matching == {i \in 1..len(data) : data.rows[i][call.col] = call.value}

PartitionSplitsRows ==
    /\ \A i \in 1..len(call.true_rows) :
          call.true_rows.rows[i][call.col] = call.value
    /\ \A i \in 1..len(call.false_rows) :
          call.false_rows.rows[i][call.col] # call.value
    /\ len(call.true_rows) + len(call.false_rows) = len(data)
    /\ call.true_rows.rows = Pick(data, Matching, 1)
    /\ call.false_rows.rows = Pick(data, (1..len(data)) \ Matching, 1)
    /\ Interleave(data, 1, call.true_rows.rows, call.false_rows.rows) = data.rows

\* C3: partition(df, col, value) puts each row in true_rows when its col is
\* value and in false_rows otherwise; the two have as many rows as df, each in
\* the order of df; put back at their row numbers they give df again; and the
\* call leaves df as it was.
C3_PartitionSplitsRows ==
    /\ [](call.op = "returned" => PartitionSplitsRows)
    /\ [][data' = data]_vars

\* a partition whose sides alternate in df, with two different rows in
\* true_rows, so that their order shows
C3_Witness ==
    /\ call.op = "returned"
    /\ len(data) >= 4
    /\ 1 \in Matching /\ 2 \notin Matching /\ 3 \in Matching /\ 4 \notin Matching
    /\ data.rows[1] # data.rows[3]
    /\ data.rows[2] # data.rows[4]

-----------------------------------------------------------------------------
(* C4 *)

\* C4: find_best_split returns the greatest gain of the candidates with both
\* sides non-empty, 0 if there is none, and with it the last candidate that
\* has this gain.
C4_BestIsLastMaximum ==
    \A act \in Searches :
        IF act.scored = <<>>
        THEN act.gain = Float0 /\ act.question = NoQuestion
        ELSE \E k \in 1..Len(act.scored) :
                /\ act.scored[k].gain = act.gain
                /\ act.scored[k].question = act.question
                /\ \A j \in 1..Len(act.scored) :
                      /\ FloatGe(act.gain, act.scored[j].gain)
                      /\ j > k => FloatGt(act.gain, act.scored[j].gain)


\* every candidate was scored below 0 and none is returned
C4_Witness ==
    \E act \in Searches :
        /\ act.scored # <<>>
        /\ \A k \in 1..Len(act.scored) : FloatGt(Float0, act.scored[k].gain)
        /\ act.question = NoQuestion
        /\ act.gain = Float0

-----------------------------------------------------------------------------
(* C5 *)

\* C5 as the specification has it: a best_gain of 0 comes with no question,
\* and a question comes only with a gain above 0.
C5_ZeroGainHasNoQuestion ==
    \A act \in Searches :
        /\ is_leaf(act.gain) => act.question = NoQuestion
        /\ act.question # NoQuestion => FloatGt(act.gain, Float0)

\* C5, amended: find_best_split returns no question exactly when no candidate
\* with both sides non-empty has a gain of 0 or more, and then best_gain is 0;
\* a question it returns is a candidate with the gain best_gain, which is 0 or
\* more: a candidate of gain exactly 0 is returned with best_gain 0.
C5_QuestionIffNonNegativeGain ==
    \A act \in Searches :
        /\ act.question = NoQuestion <=>
              \A k \in 1..Len(act.scored) :
                  FloatGt(Float0, act.scored[k].gain)
        /\ act.question = NoQuestion => act.gain = Float0
        /\ act.question # NoQuestion =>
              /\ FloatGe(act.gain, Float0)
              /\ \E k \in 1..Len(act.scored) :
                    /\ act.scored[k].question = act.question
                    /\ act.scored[k].gain = act.gain

\* find_best_split returned a question with best_gain 0
C5_Witness ==
    \E act \in Searches : is_leaf(act.gain) /\ act.question # NoQuestion

-----------------------------------------------------------------------------
(* C6 *)

Example ==
    DataFrame(NarrowCols,
              <<[Shape |-> "V", Model |-> "A"], [Shape |-> "V", Model |-> "A"],
                [Shape |-> "U", Model |-> "B"], [Shape |-> "U", Model |-> "B"]>>)

PureLeaf(label, n) ==
    [kind |-> "Leaf", predictions |-> <<[label |-> label, n |-> n]>>]

\* C6 as the specification has it: on the example the split is on Shape with
\* gain 1.0 and the tree is a Decision Node over the Leaves {A:2} and {B:2}.
C6_ExampleGainIsOne ==
    data = Example =>
        /\ \A act \in Searches :
              act.df = Example =>
                  act.gain = Float1 /\ act.question.col = "Shape"
        /\ tree.kind # "None" =>
              /\ tree.kind = "Decision_Node"
              /\ {tree.true_branch, tree.false_branch}
                    = {PureLeaf("A", 2), PureLeaf("B", 2)}

\* C6, amended: on the example find_best_split returns the gain 0.5 with the
\* question Shape == U, the last of the two candidates of this gain, and
\* build_tree returns the Decision Node of this question with the Leaf {B:2}
\* as its true branch and the Leaf {A:2} as its false branch.
C6_ExampleGainIsHalf ==
    data = Example =>
        /\ \A act \in Searches :
              act.df = Example =>
                  /\ act.gain = FloatDiv(1, 2)
                  /\ act.question = Question("Shape", "U")
        /\ tree.kind # "None" =>
              tree = Decision_Node(Question("Shape", "U"),
                                   PureLeaf("B", 2), PureLeaf("A", 2))

\* the run on the example ended with its tree
C6_Witness == data = Example /\ tree.kind = "Decision_Node"

-----------------------------------------------------------------------------
(* C7 *)

\* C7: gini of a table with no rows fails with a division by zero.
C7_GiniOfNoRowsFails ==
    data \in RootTables /\ len(data) = 0 => gini(data).err = "ZeroDivisionError"


\* find_best_split got the impurity 1 from gini for a table with no rows
C7_Witness ==
    \E act \in Searches :
        /\ len(act.df) = 0
        /\ act.current_uncertainty = Float1
        /\ err = "none"

-----------------------------------------------------------------------------
(* C8 *)

\* C8: in a run on a non-empty table no call of build_tree gets a table with
\* no rows, and gini and info_gain get no empty subset: every candidate that
\* is scored has rows on both sides, and no exception ends the run.
C8_NoEmptySubset ==
    len(data) > 0 =>
        /\ err = "none"
        /\ \A act \in Acts :
              /\ ~act.df.list
              /\ len(act.df) > 0
              /\ \A k \in 1..Len(act.scored) :
                    /\ ~act.scored[k].true_rows.list
                    /\ ~act.scored[k].false_rows.list
                    /\ len(act.scored[k].true_rows) > 0
                    /\ len(act.scored[k].false_rows) > 0

\* a recursive call whose find_best_split skipped a candidate, under a caller
\* that scored one
C8_Witness ==
    /\ len(data) > 0
    /\ Len(stack) >= 2
    /\ Top.pc = "decide"
    /\ Len(Top.scored) < Len(candidates(Top.df))
    /\ stack[1].scored # <<>>

-----------------------------------------------------------------------------
(* C9 *)

\* C9: for a table split into two non-empty parts, info_gain with the
\* table's impurity is 0 or more when the parts separate two rows of
\* different labels, and exactly 0 when both parts have the label proportions
\* of the table.
C9_GainSignAndZero ==
    \A act \in Searches :
        \A k \in 1..Len(act.scored) :
            /\ Separates(act.scored[k].true_rows, act.scored[k].false_rows) =>
                  FloatGe(act.scored[k].gain, Float0)
            /\ SameDistribution(act.df, act.scored[k].true_rows,
                                act.scored[k].false_rows) =>
                  act.scored[k].gain = Float0


\* a split into parts with the label proportions of the table, separating
\* rows of different labels, was scored below 0
C9_Witness ==
    \E act \in Searches :
        \E k \in 1..Len(act.scored) :
            /\ SameDistribution(act.df, act.scored[k].true_rows,
                                act.scored[k].false_rows)
            /\ Separates(act.scored[k].true_rows, act.scored[k].false_rows)
            /\ FloatGt(Float0, act.scored[k].gain)

-----------------------------------------------------------------------------
(* C10 *)

\* C10: the Leaves of the tree of a non-empty table count each row once:
\* for each label the counts of the Leaves add up to the count in the table,
\* all counts add up to the number of rows, and there are no more Leaves than
\* rows.
C10_RowConservation ==
    len(data) > 0 /\ tree.kind # "None" =>
        /\ \A label \in LabelSet : LeafCount(tree, label) = Count(data, label)
        /\ LeafTotal(tree) = len(data)
        /\ NumLeaves(tree) <= len(data)

\* a tree of three Leaves or more, over a table with both labels
C10_Witness ==
    /\ tree.kind = "Decision_Node"
    /\ NumLeaves(tree) >= 3
    /\ \A label \in LabelSet : Count(data, label) > 0

=============================================================================
